---- MODULE Spec2Model ----
(***************************************************************************)
(* A model of lib/application.js: middleware registration (use), callback   *)
(* composition, the request dispatcher (handleRequest), the response        *)
(* finalizer (respond) and the default error handler.                       *)
(*                                                                          *)
(* Text is a sequence of one-character strings; a header is a sequence of   *)
(* length 0 (absent) or 1 (its value).                                      *)
(***************************************************************************)
EXTENDS Integers, Sequences, FiniteSets, TLC

\* ---------------------------------------------------------------- bounds
\* Most handlers registered with use() before callback().
MaxMw == 3

\* Byte length of the buffer body of the finalizer's inputs.
BufferLength == 42

\* Most calls of app.onerror in one run of SpecOnerror.
MaxOnerrorCalls == 2

\* Most calls of app.use in one run of SpecUse.
MaxUseCalls == 3

\* Most requests whose context is created in one run of SpecContext.
MaxRequests == 2

\* Most calls of app.callback, and most 'error' listeners the owner adds, in one run
\* of SpecCallback.
MaxCallbacks == 2
MaxListeners == 2

\* ------------------------------------------------------------------ text
RECURSIVE Digits(_)
\* The decimal digits of n > 0, most significant first (String(code) for a status code).
Digits(n) ==
  IF n = 0 THEN <<>>
  ELSE Digits(n \div 10) \o
       << CASE n % 10 = 0 -> "0" [] n % 10 = 1 -> "1" [] n % 10 = 2 -> "2"
            [] n % 10 = 3 -> "3" [] n % 10 = 4 -> "4" [] n % 10 = 5 -> "5"
            [] n % 10 = 6 -> "6" [] n % 10 = 7 -> "7" [] n % 10 = 8 -> "8"
            [] OTHER -> "9" >>

\* String(n) for an integer n >= 0.
String(n) == IF n = 0 THEN <<"0">> ELSE Digits(n)

\* UTF-8 width of one character: the non-ASCII character of the model takes two bytes.
CharBytes(c) == IF c = "é" THEN 2 ELSE 1

RECURSIVE ByteLength(_)
\* Buffer.byteLength(text): the UTF-8 byte length, not the number of characters.
ByteLength(s) == IF s = <<>> THEN 0 ELSE CharBytes(Head(s)) + ByteLength(Tail(s))

\* statuses[code]: the reason phrase of the codes the model uses, <<>> when the
\* table has none (299).
Statuses(code) ==
  CASE code = 200 -> <<"O", "K">>
    [] code = 204 -> <<"N", "o", " ", "C", "o", "n", "t", "e", "n", "t">>
    [] code = 205 -> <<"R", "e", "s", "e", "t", " ", "C", "o", "n", "t", "e", "n", "t">>
    [] code = 304 -> <<"N", "o", "t", " ", "M", "o", "d", "i", "f", "i", "e", "d">>
    [] code = 404 -> <<"N", "o", "t", " ", "F", "o", "u", "n", "d">>
    [] code = 500 -> <<"I", "n", "t", "e", "r", "n", "a", "l", " ", "S", "e", "r", "v", "e", "r",
                       " ", "E", "r", "r", "o", "r">>
    [] OTHER -> <<>>

\* statuses.empty[code]: the statuses that carry no body.
StatusesEmpty(code) == code \in {204, 205, 304}

\* ---------------------------------------------------------------- bodies
\* A body value: kind is one of "undefined", "null", "buffer", "string", "stream",
\* "object" (a map with string keys and integer values) or "circular" (a structured
\* value JSON.stringify rejects). text holds a string's characters, bytes a buffer's
\* octets, obj an object's <<key, value>> entries.
MkBody(kind, text, bytes, obj) == [kind |-> kind, text |-> text, bytes |-> bytes, obj |-> obj]
Undefined == MkBody("undefined", <<>>, <<>>, <<>>)
Null == MkBody("null", <<>>, <<>>, <<>>)
Str(text) == MkBody("string", text, <<>>, <<>>)
Buf(bytes) == MkBody("buffer", <<>>, bytes, <<>>)
StreamBody == MkBody("stream", <<>>, <<>>, <<>>)
Obj(entries) == MkBody("object", <<>>, <<>>, entries)
Circular == MkBody("circular", <<>>, <<>>, <<>>)

\* null == body
IsNullish(body) == body.kind \in {"undefined", "null"}

RECURSIVE StringifyEntries(_)
\* "k":v,"k":v of an object's entries.
StringifyEntries(es) ==
  IF es = <<>> THEN <<>>
  ELSE LET e == Head(es)
           one == <<"\"">> \o e[1] \o <<"\"", ":">> \o String(e[2])
       IN IF Len(es) = 1 THEN one ELSE one \o <<",">> \o StringifyEntries(Tail(es))

\* JSON.stringify(body) of an object body: the text {"k":v,...}.
JSONStringify(body) == <<"{">> \o StringifyEntries(body.obj) \o <<"}">>

\* ------------------------------------------------- per-request response state
\* The response state of one request, as respond reads and writes it:
\*   respond           ctx.respond !== false (FALSE: the handler bypasses the finalizer)
\*   body, explicitNullBody, method, httpVersionMajor
\*   statusCode, statusMessage     res.statusCode, res.statusMessage (<<>>: unset)
\*   explicitStatus                ctx.status was assigned, by a handler or by the body
\*                                 accessor
\*   headersSent, writableEnded    res.headersSent, res.writableEnded
\*   socketWritable                res.socket.writable
\*   socket                        the connection (the socket of HTTP/1, the stream of
\*                                 HTTP/2): "open", "destroyed" (no longer writable, its
\*                                 'close' or 'error' not yet emitted), "closed"
\*   cl, ct, te                    the Content-Length, Content-Type, Transfer-Encoding headers
\*   endCalls, pipeCalls, payload  calls of res.end and body.pipe(res), and what res.end
\*                                 was given to write
\*   pipeEnded                     the piped stream ended and node's pipe called res.end()
\*   piping                        a stream body is being piped to the connection
MkCtx(method, major, body, status) ==
  [ respond |-> TRUE, body |-> body, explicitNullBody |-> FALSE, method |-> method,
    httpVersionMajor |-> major, statusCode |-> status, statusMessage |-> <<>>,
    explicitStatus |-> FALSE,
    headersSent |-> FALSE, writableEnded |-> FALSE, socketWritable |-> TRUE,
    socket |-> "open",
    cl |-> <<>>, ct |-> <<>>, te |-> <<>>,
    endCalls |-> 0, pipeCalls |-> 0, payload |-> Undefined, piping |-> FALSE,
    pipeEnded |-> FALSE ]

\* ctx.writable: nothing can be written once the response has ended or the socket
\* is no longer writable.
Writable(c) == ~c.writableEnded /\ c.socketWritable

\* ctx.response.has(field), field one of "cl", "ct", "te".
Has(c, field) == c[field] # <<>>

\* ctx.response.set(field, val): ignored once the headers are sent.
Set(c, field, val) == IF c.headersSent THEN c ELSE [c EXCEPT ![field] = <<val>>]

\* ctx.response.remove(field): ignored once the headers are sent.
Remove(c, field) == IF c.headersSent THEN c ELSE [c EXCEPT ![field] = <<>>]

\* ctx.length = n
SetLength(c, n) == Set(c, "cl", n)

TextPlain == "text/plain; charset=utf-8"

\* ctx.type = 'text'
SetTypeText(c) == Set(c, "ct", TextPlain)

\* ctx.message || String(code): res.statusMessage, else the reason phrase, else the code.
MessageOrCode(c) ==
  IF c.statusMessage # <<>> THEN c.statusMessage
  ELSE IF Statuses(c.statusCode) # <<>> THEN Statuses(c.statusCode)
  ELSE String(c.statusCode)

TextHtml == "text/html; charset=utf-8"
OctetStream == "application/octet-stream"
ApplicationJson == "application/json; charset=utf-8"

\* A value that is truthy: a body that is present and is not the empty string.
Truthy(body) == ~IsNullish(body) /\ ~(body.kind = "string" /\ body.text = <<>>)

\* ctx.status = code: ignored once the headers are sent; else the explicit-status flag
\* is set, res.statusCode becomes code, on HTTP/1 res.statusMessage becomes
\* statuses[code], and a body that is present is cleared for a no-body status (the
\* body accessor with null, the status being a no-body status already).
SetStatus(c, code) ==
  IF c.headersSent THEN c
  ELSE LET c1 == [c EXCEPT !.explicitStatus = TRUE, !.statusCode = code,
                           !.statusMessage = IF c.httpVersionMajor < 2 THEN Statuses(code)
                                             ELSE @]
       IN IF Truthy(c1.body) /\ StatusesEmpty(code)
          THEN Remove(Remove(Remove([c1 EXCEPT !.body = Null, !.explicitNullBody = TRUE],
                                    "ct"), "cl"), "te")
          ELSE c1

RECURSIVE LooksLikeHtml(_)
\* /^\s*</.test(text)
LooksLikeHtml(text) ==
  text # <<>> /\ (Head(text) = "<" \/ (Head(text) = " " /\ LooksLikeHtml(Tail(text))))

\* ctx.body = val, the body accessor. With null or undefined: a status that may carry
\* a body becomes 204, null sets the explicit-null-body flag and the three entity
\* headers are removed. With a value: the status becomes 200 unless a status was
\* assigned before, the content type is set if there is none (always for a structured
\* value) and the content length is set for a string or a byte sequence and removed
\* for a structured value or for a stream that replaces another body.
SetBody(c, val) ==
  LET c1 == [c EXCEPT !.body = val] IN
  IF IsNullish(val)
  THEN LET c2 == IF StatusesEmpty(c1.statusCode) THEN c1 ELSE SetStatus(c1, 204)
           c3 == IF val.kind = "null" THEN [c2 EXCEPT !.explicitNullBody = TRUE] ELSE c2
       IN Remove(Remove(Remove(c3, "ct"), "cl"), "te")
  ELSE LET c2 == IF ~c1.explicitStatus THEN SetStatus(c1, 200) ELSE c1
           setType == ~Has(c2, "ct")
       IN CASE val.kind = "string" ->
                 SetLength(IF setType
                           THEN Set(c2, "ct", IF LooksLikeHtml(val.text) THEN TextHtml
                                              ELSE TextPlain)
                           ELSE c2,
                           ByteLength(val.text))
            [] val.kind = "buffer" ->
                 SetLength(IF setType THEN Set(c2, "ct", OctetStream) ELSE c2,
                           Len(val.bytes))
            [] val.kind = "stream" ->
                 LET c3 == IF c.body # val /\ ~IsNullish(c.body) THEN Remove(c2, "cl")
                           ELSE c2
                 IN IF setType THEN Set(c3, "ct", OctetStream) ELSE c3
            [] OTHER -> Set(Remove(c2, "cl"), "ct", ApplicationJson)

\* ctx.body = null
SetBodyNull(c) == SetBody(c, Null)

\* ctx.response.length when no Content-Length header exists: <<n>>, or <<>> when the
\* getter yields undefined (a falsy body or a stream). A circular body makes the
\* getter throw: see LengthThrows.
ResponseLength(c) ==
  LET b == c.body IN
  IF Has(c, "cl") THEN c.cl
  ELSE IF IsNullish(b) \/ (b.kind = "string" /\ b.text = <<>>) \/ b.kind = "stream" THEN <<>>
  ELSE IF b.kind = "string" THEN <<ByteLength(b.text)>>
  ELSE IF b.kind = "buffer" THEN <<Len(b.bytes)>>
  ELSE <<ByteLength(JSONStringify(b))>>

LengthThrows(c) == ~Has(c, "cl") /\ c.body.kind = "circular"

\* node's HTTP/2 response refuses to send a head that carries a Transfer-Encoding
\* header: on an open stream the first write throws and sends nothing. On a stream
\* that is destroyed or closed no head is sent and nothing is thrown.
WriteHeadThrows(c) ==
  c.httpVersionMajor >= 2 /\ ~c.headersSent /\ Has(c, "te") /\ c.socket = "open"

\* node's res.writeHead, run implicitly by the first write of a response whose
\* headers are not sent: the headers are sent and, on HTTP/1, an unset
\* res.statusMessage becomes the reason phrase of the status (http.STATUS_CODES), or
\* "unknown"; an HTTP/2 response has no status message, and sends no head once its
\* stream is destroyed.
WriteHead(c) ==
  IF c.headersSent \/ (c.httpVersionMajor >= 2 /\ c.socket # "open") THEN c
  ELSE [c EXCEPT !.headersSent = TRUE,
                 !.statusMessage =
                    IF @ # <<>> \/ c.httpVersionMajor >= 2 THEN @
                    ELSE IF Statuses(c.statusCode) # <<>> THEN Statuses(c.statusCode)
                    ELSE <<"u", "n", "k", "n", "o", "w", "n">>]

\* res.end throws what its implicit writeHead throws, unless the response has ended.
EndThrows(c) == ~c.writableEnded /\ WriteHeadThrows(c)

\* res.end on a destroyed HTTP/2 stream closes the response at once: 'finish' and
\* 'close' are emitted on res inside the call.
EndClosesResponse(c) ==
  c.httpVersionMajor >= 2 /\ ~c.writableEnded /\ c.socket = "destroyed"

\* res.end(payload): the terminal write. payload is Undefined for res.end(). The call
\* is counted, with the payload it was given.
\*   - a response that has ended, and an HTTP/2 response whose stream has closed (not
\*     for HEAD), ignore the call;
\*   - when the head cannot be sent the call throws with the headers unsent: given a
\*     payload it throws in its write and leaves the response open, given none it
\*     throws after it has marked the response as ended;
\*   - on a destroyed or closed HTTP/2 stream it marks the response as ended and sends
\*     nothing;
\*   - otherwise the head is sent if it was not and the response is ended; the
\*     writable side of an HTTP/2 stream ends with it (res.socket.writable).
End(c, payload) ==
  LET called == [c EXCEPT !.endCalls = @ + 1, !.payload = payload] IN
  IF c.writableEnded THEN called
  ELSE IF c.httpVersionMajor >= 2
  THEN IF c.socket = "closed" /\ c.method # "HEAD" THEN called
       ELSE IF c.socket # "open" THEN [called EXCEPT !.writableEnded = TRUE]
       ELSE IF WriteHeadThrows(c)
       THEN [called EXCEPT !.writableEnded = (payload = Undefined)]
       ELSE [WriteHead(called) EXCEPT !.writableEnded = TRUE, !.socketWritable = FALSE]
  ELSE [WriteHead(called) EXCEPT !.writableEnded = TRUE]

\* body.pipe(res)
Pipe(c) == [c EXCEPT !.pipeCalls = @ + 1, !.piping = TRUE]

\* ------------------------------------------------------------- respond
Returned(c) == [ctx |-> c, threw |-> FALSE]
Threw(c) == [ctx |-> c, threw |-> TRUE]

\* return res.end(payload): respond returns, or throws what res.end throws.
EndResult(c, payload) ==
  IF EndThrows(c) THEN Threw(End(c, payload)) ELSE Returned(End(c, payload))

\* A HEAD rule that computes the length whether or not a Content-Length exists.
RespondHeadOverwrites(c) ==
  IF ~c.headersSent
  THEN IF c.body.kind = "circular" THEN Threw(c)
       ELSE LET length == ResponseLength([c EXCEPT !.cl = <<>>])
            IN EndResult(IF length # <<>> THEN SetLength(c, length[1]) ELSE c, Undefined)
  ELSE EndResult(c, Undefined)

\* Lines 275-281: the HEAD rule.
RespondHead(c) ==
  IF ~c.headersSent /\ ~Has(c, "cl")
  THEN IF LengthThrows(c) THEN Threw(c)
       ELSE LET length == ResponseLength(c)
            IN EndResult(IF length # <<>> THEN SetLength(c, length[1]) ELSE c, Undefined)
  ELSE EndResult(c, Undefined)

\* A status body that ignores the explicit-null-body flag.
RespondStatusBodyNoFlag(c) ==
  LET body == IF c.httpVersionMajor >= 2 THEN String(c.statusCode) ELSE MessageOrCode(c)
      c1 == IF ~c.headersSent THEN SetLength(SetTypeText(c), ByteLength(body)) ELSE c
  IN EndResult(c1, Str(body))

\* A status body that tests the protocol version with > instead of >=.
RespondStatusBodyStrict(c) ==
  IF c.explicitNullBody
  THEN EndResult(Remove(Remove(c, "ct"), "te"), Undefined)
  ELSE LET body == IF c.httpVersionMajor > 2 THEN String(c.statusCode)
                   ELSE MessageOrCode(c)
           c1 == IF ~c.headersSent THEN SetLength(SetTypeText(c), ByteLength(body)) ELSE c
       IN EndResult(c1, Str(body))

\* Lines 284-300: the body is null or undefined.
RespondStatusBody(c) ==
  IF c.explicitNullBody
  THEN EndResult(Remove(Remove(c, "ct"), "te"), Undefined)
  ELSE LET body == IF c.httpVersionMajor >= 2 THEN String(c.statusCode)
                   ELSE MessageOrCode(c)
           c1 == IF ~c.headersSent THEN SetLength(SetTypeText(c), ByteLength(body)) ELSE c
       IN EndResult(c1, Str(body))

\* Body rules without the string test of line 304: a string is serialized as JSON.
RespondBodyStringAsJson(c) ==
  LET b == c.body IN
  IF b.kind = "buffer" THEN EndResult(c, b)
  ELSE IF b.kind = "stream" THEN Returned(Pipe(c))
  ELSE IF b.kind = "circular" THEN Threw(c)
  ELSE LET body == IF b.kind = "string" THEN <<"\"">> \o b.text \o <<"\"">>
                   ELSE JSONStringify(b)
           c1 == IF ~c.headersSent THEN SetLength(c, ByteLength(body)) ELSE c
       IN EndResult(c1, Str(body))

\* Body rules that set the content length to the number of characters.
RespondBodyCharLength(c) ==
  LET b == c.body IN
  IF b.kind = "buffer" THEN EndResult(c, b)
  ELSE IF b.kind = "string" THEN EndResult(c, b)
  ELSE IF b.kind = "stream" THEN Returned(Pipe(c))
  ELSE IF b.kind = "circular" THEN Threw(c)
  ELSE LET body == JSONStringify(b)
           c1 == IF ~c.headersSent THEN SetLength(c, Len(body)) ELSE c
       IN EndResult(c1, Str(body))

\* A string rule without its return: the body is written, and written again as JSON.
RespondBodyFallsThrough(c) ==
  LET b == c.body IN
  IF b.kind = "string" THEN EndResult(End(c, b), b)
  ELSE IF b.kind = "buffer" THEN EndResult(c, b)
  ELSE IF b.kind = "stream" THEN Returned(Pipe(c))
  ELSE IF b.kind = "circular" THEN Threw(c)
  ELSE EndResult(c, Str(JSONStringify(b)))

\* Lines 302-312: a body that is present.
RespondBody(c) ==
  LET b == c.body IN
  IF b.kind = "buffer" THEN EndResult(c, b)
  ELSE IF b.kind = "string" THEN EndResult(c, b)
  ELSE IF b.kind = "stream" THEN Returned(Pipe(c))
  ELSE IF b.kind = "circular" THEN Threw(c)
  ELSE LET body == JSONStringify(b)
           c1 == IF ~c.headersSent THEN SetLength(c, ByteLength(body)) ELSE c
       IN EndResult(c1, Str(body))

\* A finalizer without the bypass check of line 260.
RespondNoBypass(c) ==
  IF ~Writable(c) THEN Returned(c)
  ELSE IF StatusesEmpty(c.statusCode) THEN EndResult(SetBodyNull(c), Undefined)
  ELSE IF c.method = "HEAD" THEN RespondHead(c)
  ELSE IF IsNullish(c.body) THEN RespondStatusBody(c)
  ELSE RespondBody(c)

\* A finalizer that checks writability only after the no-body statuses.
RespondLateWritable(c) ==
  IF ~c.respond THEN Returned(c)
  ELSE IF StatusesEmpty(c.statusCode) THEN EndResult(SetBodyNull(c), Undefined)
  ELSE IF ~Writable(c) THEN Returned(c)
  ELSE IF c.method = "HEAD" THEN RespondHead(c)
  ELSE IF IsNullish(c.body) THEN RespondStatusBody(c)
  ELSE RespondBody(c)

\* A finalizer that applies the HEAD rule before the no-body statuses.
RespondHeadFirst(c) ==
  IF ~c.respond THEN Returned(c)
  ELSE IF ~Writable(c) THEN Returned(c)
  ELSE IF c.method = "HEAD" THEN RespondHead(c)
  ELSE IF StatusesEmpty(c.statusCode) THEN EndResult(SetBodyNull(c), Undefined)
  ELSE IF IsNullish(c.body) THEN RespondStatusBody(c)
  ELSE RespondBody(c)

\* A finalizer without the writability check of line 262.
RespondUnchecked(c) ==
  IF ~c.respond THEN Returned(c)
  ELSE IF StatusesEmpty(c.statusCode) THEN EndResult(SetBodyNull(c), Undefined)
  ELSE IF c.method = "HEAD" THEN RespondHead(c)
  ELSE IF IsNullish(c.body) THEN RespondStatusBody(c)
  ELSE RespondBody(c)

\* respond(ctx): the response state after the finalizer, and whether it threw.
Respond(c) ==
  IF ~c.respond THEN Returned(c)
  ELSE IF ~Writable(c) THEN Returned(c)
  ELSE IF StatusesEmpty(c.statusCode) THEN EndResult(SetBodyNull(c), Undefined)
  ELSE IF c.method = "HEAD" THEN RespondHead(c)
  ELSE IF IsNullish(c.body) THEN RespondStatusBody(c)
  ELSE RespondBody(c)

\* ------------------------------------------------------------ handlers
\* A registered handler is [id, kind]: id is the ordinal of the use() call that
\* registered it, kind the code it runs, a list of steps:
\*   "before"     its code before next(), which may write the response state
\*   "next"       await next(), a rejection of which rejects the handler
\*   "nextCatch"  try { await next() } catch {}
\*   "throw"      throw new Error()
\*   "after"      its code after next(), then return
HandlerKinds == {"pass", "stop", "throws", "twice", "twiceCaught", "guard"}

Program(kind) ==
  CASE kind = "pass" -> <<"before", "next", "after">>
    [] kind = "stop" -> <<"before", "after">>
    [] kind = "throws" -> <<"before", "throw">>
    [] kind = "twice" -> <<"before", "next", "next", "after">>
    [] kind = "twiceCaught" -> <<"before", "next", "nextCatch", "after">>
    [] OTHER -> <<"before", "nextCatch", "after">>

\* What a handler's code before next() may write through the context.
Effects == {"none", "status200", "bodyString", "bodyStream", "bodyCircular", "bypass"}

\* ctx.status = 200, ctx.body = 'hi', ctx.body = a stream, ctx.body = a structured
\* value JSON.stringify rejects, ctx.respond = false.
ApplyEffect(c, e) ==
  CASE e = "status200" -> SetStatus(c, 200)
    [] e = "bodyString" -> SetBody(c, Str(<<"h", "i">>))
    [] e = "bodyStream" -> SetBody(c, StreamBody)
    [] e = "bodyCircular" -> SetBody(c, Circular)
    [] e = "bypass" -> [c EXCEPT !.respond = FALSE]
    [] OTHER -> c

Methods == {"GET", "HEAD"}

VARIABLES
  phase,        \* "setup", "listening", "handling"; "finalizer", "finalized" (SpecRespond)
  middleware,   \* app.middleware: the registered handlers, in order
  ctx,          \* the response state of the request
  ctx0,         \* the response state respond was called with
  stack,        \* the handler invocations in progress: <<[h, pc], ...>>, innermost last
  index,        \* compose's index: the last handler dispatched (0: none)
  log,          \* what ran, in order: <<id, "before">>, <<id, "after">>, and
                \* <<id, "multipleNext">> for a call of next() that dispatch refused
  pipeline,     \* fnMiddleware(ctx): "idle", "pending", "resolved", "rejected"
  thenState,    \* the promise of .then(handleResponse): "pending", "fulfilled", "rejected"
  catchState,   \* the promise of .catch(onerror): "pending", "fulfilled"
  err,          \* the reason of the latest rejection
  observer,     \* onFinished(res, onerror): "none", "armed", "fired"
  respondCalls, \* invocations of respond
  onerrorLog,   \* invocations of ctx.onerror: <<[from, err], ...>>
  app,          \* the application: [silent, listeners, composeCalls]
  calls,        \* the calls of use and of app.onerror made so far, with their outcome
  console,      \* what console.error has written, one entry for each call
  heap,         \* the objects of createContext: id -> [proto, props]
  created,      \* what createContext returned, one entry for each request
  effects       \* what the handlers' code wrote through the context: a set of Effects

appVars == <<app, calls, console, heap, created>>

vars == <<phase, middleware, ctx, ctx0, stack, index, log, pipeline, thenState,
          catchState, err, observer, respondCalls, onerrorLog, app, calls, console,
          heap, created, effects>>

reqVars == <<ctx, ctx0, stack, index, log, pipeline, thenState, catchState, err,
             observer, respondCalls, onerrorLog, effects>>

\* The application after its constructor: no 'error' listener, nothing composed.
\* A listener is "onerror" (the default error handler) or "user".
NewApp(silent) == [silent |-> silent, listeners |-> <<>>, composeCalls |-> 0]

\* An object: its prototype (0: none of the model) and its own properties, a
\* function from property names to values.
NoProps == [k \in {} |-> 0]
NewObject(proto) == [proto |-> proto, props |-> NoProps]
ContextTemplate == 1
RequestTemplate == 2
ResponseTemplate == 3

\* this.context, this.request, this.response of the constructor (lines 72-74).
Templates ==
  [o \in {ContextTemplate, RequestTemplate, ResponseTemplate} |->
     [proto |-> 0, props |-> NoProps]]

\* A callback() that registers the default error handler whatever is registered.
DoCallbackAlwaysListens(a) ==
  [a EXCEPT !.composeCalls = @ + 1, !.listeners = Append(@, "onerror")]

\* callback(), lines 162-164: compose the middleware, and register onerror if
\* there is no 'error' listener.
DoCallback(a) ==
  [a EXCEPT !.composeCalls = @ + 1,
            !.listeners = IF Len(@) = 0 THEN Append(@, "onerror") ELSE @]

\* node's HTTP/2 server ends the writable side of the stream of a HEAD request when
\* the request arrives: res.socket.writable is false from the start.
SocketWritableAtStart(method, major) == ~(method = "HEAD" /\ major >= 2)

\* The response handle before handleRequest touches it: node's res.statusCode is 200.
FreshCtx(method, major) ==
  [MkCtx(method, major, Undefined, 200) EXCEPT
     !.socketWritable = SocketWritableAtStart(method, major)]

Init ==
  /\ phase = "setup"
  /\ middleware = <<>>
  /\ ctx = FreshCtx("GET", 1)
  /\ ctx0 = FreshCtx("GET", 1)
  /\ stack = <<>>
  /\ index = 0
  /\ log = <<>>
  /\ pipeline = "idle"
  /\ thenState = "pending"
  /\ catchState = "pending"
  /\ err = "none"
  /\ observer = "none"
  /\ respondCalls = 0
  /\ onerrorLog = <<>>
  /\ effects = {}
  /\ app = NewApp(FALSE)
  /\ calls = <<>>
  /\ console = <<>>
  /\ heap = Templates
  /\ created = <<>>

\* ---------------------------------------------------------- use, callback
\* A registration that puts the handler first.
Unshift(mw, fn) == <<fn>> \o mw

\* this.middleware.push(fn)
Push(mw, fn) == Append(mw, fn)

\* A function handed to use: an ordinary function of a handler kind, or a generator
\* function; converted says that it is the result of convert().
Fn(kind, generator) ==
  [type |-> "function", generator |-> generator, converted |-> FALSE, kind |-> kind]

\* A value that is not a function.
NotFn(type) == [type |-> type, generator |-> FALSE, converted |-> FALSE, kind |-> "none"]

\* isGeneratorFunction(fn), line 141
IsGeneratorFunction(fn) == fn.generator

\* convert(fn), line 145: a new function, promise-based, wrapping the generator.
Convert(fn) == [fn EXCEPT !.generator = FALSE, !.converted = TRUE]

\* A registration that does not test the type of its argument.
UseResultUntyped(mw, fn) ==
  LET f == IF IsGeneratorFunction(fn) THEN Convert(fn) ELSE fn IN
  [threw |-> "none", ret |-> "app",
   middleware |-> Push(mw, [id |-> Len(mw) + 1, kind |-> f.kind,
                            converted |-> f.converted])]

\* use(fn), lines 139-150: what it throws, what it returns and the middleware after
\* it. A handler is recorded with its ordinal (id), its kind and whether it is a
\* converted generator.
UseResult(mw, fn) ==
  IF fn.type # "function"
  THEN [threw |-> "TypeError", ret |-> "none", middleware |-> mw]
  ELSE LET f == IF IsGeneratorFunction(fn) THEN Convert(fn) ELSE fn IN
       [threw |-> "none", ret |-> "app",
        middleware |-> Push(mw, [id |-> Len(mw) + 1, kind |-> f.kind,
                                 converted |-> f.converted])]

\* use(fn) with a function.
Use(fn) ==
  /\ phase = "setup"
  /\ Len(middleware) < MaxMw
  /\ middleware' = UseResult(middleware, Fn(fn, FALSE)).middleware
  /\ UNCHANGED <<phase, reqVars>>
  /\ UNCHANGED appVars

\* callback(): composes the middleware and returns the request handler.
Callback ==
  /\ phase = "setup"
  /\ phase' = "listening"
  /\ app' = DoCallback(app)
  /\ calls' = Append(calls, [op |-> "callback", listeners |-> app.listeners])
  /\ UNCHANGED <<middleware, reqVars, console, heap, created>>

\* ------------------------------------------------------------ compose
Top(stk) == stk[Len(stk)]
Pop(stk) == SubSeq(stk, 1, Len(stk) - 1)
Advance(stk) == [stk EXCEPT ![Len(stk)].pc = @ + 1]
TopOp(mw, stk) == Program(mw[Top(stk).h].kind)[Top(stk).pc]
TopId(mw, stk) == mw[Top(stk).h].id

RECURSIVE Unwind(_, _, _)
\* A handler invocation has settled (ok: fulfilled) and stk holds its callers: the
\* caller awaiting it continues, or is rejected in turn when it does not catch. With
\* no caller left the pipeline itself settles.
Unwind(mw, stk, ok) ==
  IF stk = <<>> THEN [stack |-> <<>>, outcome |-> IF ok THEN "resolved" ELSE "rejected"]
  ELSE IF ok \/ TopOp(mw, stk) = "nextCatch"
       THEN [stack |-> Advance(stk), outcome |-> "pending"]
       ELSE Unwind(mw, Pop(stk), FALSE)

\* dispatch(i) refuses a handler at or before the last one dispatched.
CalledTwice(i, idx) == i <= idx

\* handleRequest, lines 183-190 up to the call of the pipeline: the status defaults
\* to 404, the completion observer is registered, and dispatch(1) starts the first
\* handler (an empty pipeline resolves at once).
DefaultStatusMissing(c) == c

DefaultStatus(c) == [c EXCEPT !.statusCode = 404]

\* ------------------------------------------------------------ createContext
\* A property value: a reference to an object of the heap ("ref"), the application,
\* a request's node req or res or its url (v: the request), a value written by
\* request v or, with v = 0, by the application's owner ("val"), or undefined.
Val(t, v) == [t |-> t, v |-> v]

\* obj.k1 = v1, obj.k2 = v2, ...: own properties set or replaced.
Merge(props, new) ==
  [k \in DOMAIN props \cup DOMAIN new |-> IF k \in DOMAIN new THEN new[k] ELSE props[k]]

\* Property lookup along the prototype chain.
RECURSIVE Lookup(_, _, _)
Lookup(h, o, k) ==
  IF k \in DOMAIN h[o].props THEN h[o].props[k]
  ELSE IF h[o].proto = 0 THEN Val("undefined", 0)
  ELSE Lookup(h, h[o].proto, k)

\* The heap with fresh objects: ids maps each new object to its prototype.
Alloc(h, protos) ==
  [o \in DOMAIN h \cup DOMAIN protos |-> IF o \in DOMAIN h THEN h[o] ELSE NewObject(protos[o])]

\* The cross-links of lines 205-223 set on context c, request q, response s, with the
\* state map st, for request r.
Link(h, c, q, s, st, r) ==
  [h EXCEPT
     ![c].props = Merge(@, [k \in {"request", "response", "app", "req", "res",
                                   "originalUrl", "state"} |->
                              CASE k = "request" -> Val("ref", q)
                                [] k = "response" -> Val("ref", s)
                                [] k = "app" -> Val("app", 0)
                                [] k = "req" -> Val("req", r)
                                [] k = "res" -> Val("res", r)
                                [] k = "originalUrl" -> Val("url", r)
                                [] OTHER -> Val("ref", st)]),
     ![q].props = Merge(@, [k \in {"app", "req", "res", "ctx", "response",
                                   "originalUrl"} |->
                              CASE k = "app" -> Val("app", 0)
                                [] k = "req" -> Val("req", r)
                                [] k = "res" -> Val("res", r)
                                [] k = "ctx" -> Val("ref", c)
                                [] k = "response" -> Val("ref", s)
                                [] OTHER -> Val("url", r)]),
     ![s].props = Merge(@, [k \in {"app", "req", "res", "ctx", "request"} |->
                              CASE k = "app" -> Val("app", 0)
                                [] k = "req" -> Val("req", r)
                                [] k = "res" -> Val("res", r)
                                [] k = "ctx" -> Val("ref", c)
                                [] OTHER -> Val("ref", q)])]

\* A createContext that links the request onto the application's template context
\* instead of a fresh object.
CreateContextOnTemplate(h, r) ==
  LET n == Cardinality(DOMAIN h)
      q == n + 1
      s == n + 2
      st == n + 3
      h1 == Alloc(h, [o \in {q, s, st} |->
                        IF o = q THEN RequestTemplate
                        ELSE IF o = s THEN ResponseTemplate ELSE 0])
  IN [heap |-> Link(h1, ContextTemplate, q, s, st, r), context |-> ContextTemplate]

\* createContext(req, res) for request r, lines 203-226: the heap after it and the
\* context it returns.
CreateContextResult(h, r) ==
  LET n == Cardinality(DOMAIN h)
      c == n + 1
      q == n + 2
      s == n + 3
      st == n + 4
      h1 == Alloc(h, [o \in {c, q, s, st} |->
                        IF o = c THEN ContextTemplate
                        ELSE IF o = q THEN RequestTemplate
                        ELSE IF o = s THEN ResponseTemplate ELSE 0])
  IN [heap |-> Link(h1, c, q, s, st, r), context |-> c]

\* A request arrives: the handler callback() returned creates the request's context
\* (line 169) and calls handleRequest (lines 182-191), in one synchronous step.
HandleRequest ==
  /\ phase = "listening"
  /\ phase' = "handling"
  /\ \E method \in Methods, major \in {1, 2} :
       ctx' = DefaultStatus(FreshCtx(method, major))
  /\ observer' = "armed"
  /\ IF middleware = <<>>
     THEN /\ pipeline' = "resolved"
          /\ UNCHANGED <<stack, index>>
     ELSE /\ pipeline' = "pending"
          /\ stack' = <<[h |-> 1, pc |-> 1]>>
          /\ index' = 1
  /\ LET r == CreateContextResult(heap, Len(created) + 1) IN
       /\ heap' = r.heap
       /\ created' = Append(created, r.context)
  /\ UNCHANGED <<middleware, ctx0, log, thenState, catchState, err, respondCalls,
                 onerrorLog, effects, app, calls, console>>

Running == phase = "handling" /\ pipeline = "pending" /\ stack # <<>>

\* A handler's code before next().
HandlerBefore ==
  /\ Running
  /\ TopOp(middleware, stack) = "before"
  /\ \E e \in Effects :
       /\ ctx' = ApplyEffect(ctx, e)
       /\ effects' = effects \cup {e}
  /\ log' = Append(log, <<TopId(middleware, stack), "before">>)
  /\ stack' = Advance(stack)
  /\ UNCHANGED <<phase, middleware, ctx0, index, pipeline, thenState, catchState, err,
                 observer, respondCalls, onerrorLog>>
  /\ UNCHANGED appVars

Settle(r) ==
  /\ stack' = r.stack
  /\ pipeline' = r.outcome

\* A handler calls next(): dispatch(h + 1).
HandlerNext ==
  /\ Running
  /\ TopOp(middleware, stack) \in {"next", "nextCatch"}
  /\ LET i == Top(stack).h + 1 IN
     IF CalledTwice(i, index)
     THEN /\ Settle(Unwind(middleware, stack, FALSE))
          /\ err' = IF TopOp(middleware, stack) = "next" THEN "multipleNext" ELSE err
          /\ log' = Append(log, <<TopId(middleware, stack), "multipleNext">>)
          /\ UNCHANGED index
     ELSE /\ index' = i
          /\ IF i > Len(middleware)
             THEN Settle(Unwind(middleware, stack, TRUE))
             ELSE /\ stack' = Append(stack, [h |-> i, pc |-> 1])
                  /\ UNCHANGED pipeline
          /\ UNCHANGED <<err, log>>
  /\ UNCHANGED <<phase, middleware, ctx, ctx0, thenState, catchState, observer,
                 respondCalls, onerrorLog>>
  /\ UNCHANGED <<appVars, effects>>

\* A handler throws.
HandlerThrow ==
  /\ Running
  /\ TopOp(middleware, stack) = "throw"
  /\ Settle(Unwind(middleware, Pop(stack), FALSE))
  /\ err' = "boom"
  /\ UNCHANGED <<phase, middleware, ctx, ctx0, index, log, thenState, catchState,
                 observer, respondCalls, onerrorLog>>
  /\ UNCHANGED <<appVars, effects>>

\* A handler's code after next(), and its return.
HandlerAfter ==
  /\ Running
  /\ TopOp(middleware, stack) = "after"
  /\ log' = Append(log, <<TopId(middleware, stack), "after">>)
  /\ Settle(Unwind(middleware, Pop(stack), TRUE))
  /\ UNCHANGED <<phase, middleware, ctx, ctx0, index, err, thenState, catchState,
                 observer, respondCalls, onerrorLog>>
  /\ UNCHANGED <<appVars, effects>>

\* ------------------------------------------- handleRequest: the promise chain
\* A chain that runs handleResponse however the pipeline settles.
ThenEnabledAlways(p) == p \in {"resolved", "rejected"}

\* .then(handleResponse): handleResponse runs when the pipeline is fulfilled.
ThenEnabled(p) == p = "resolved"

\* A chain that runs onerror however the pipeline settles.
CatchEnabledAlways(p, t) == p \in {"resolved", "rejected"}

\* .catch(onerror): onerror runs when the promise of .then(handleResponse) is rejected,
\* by the pipeline's rejection passing through or by handleResponse throwing.
CatchEnabled(p, t) == p = "rejected" \/ t = "rejected"

\* ctx.onerror(e), called by the dispatcher (from: "catch") or by the completion
\* observer (from: "observer"): the invocation is recorded.
CtxOnerror(olog, from, e) == Append(olog, [from |-> from, err |-> e])

\* handleResponse = () => respond(ctx)
HandleResponse ==
  /\ phase = "handling"
  /\ thenState = "pending"
  /\ ThenEnabled(pipeline)
  /\ LET r == Respond(ctx) IN
       /\ ctx0' = ctx
       /\ ctx' = r.ctx
       /\ respondCalls' = respondCalls + 1
       /\ thenState' = IF r.threw THEN "rejected" ELSE "fulfilled"
       /\ catchState' = IF r.threw THEN "pending" ELSE "fulfilled"
       /\ err' = IF r.threw THEN "stringify" ELSE err
  /\ UNCHANGED <<phase, middleware, stack, index, log, pipeline, observer, onerrorLog>>
  /\ UNCHANGED <<appVars, effects>>

\* onerror = err => ctx.onerror(err), as the chain's catch.
CatchOnerror ==
  /\ phase = "handling"
  /\ catchState = "pending"
  /\ CatchEnabled(pipeline, thenState)
  /\ onerrorLog' = CtxOnerror(onerrorLog, "catch", err)
  /\ catchState' = "fulfilled"
  /\ thenState' = "rejected"
  /\ UNCHANGED <<phase, middleware, ctx, ctx0, stack, index, log, pipeline, err,
                 observer, respondCalls>>
  /\ UNCHANGED <<appVars, effects>>

\* --------------------------------------------- onFinished(res, onerror)
\* The listener runs once, on the first of: the response finishing, the socket
\* closing, the socket failing. Only a failure hands it an error.
ObserverFiresAgain(obs) == obs # "none"

ObserverFires(obs) == obs = "armed"

Observe(e) ==
  IF ObserverFires(observer)
  THEN /\ observer' = "fired"
       /\ onerrorLog' = CtxOnerror(onerrorLog, "observer", e)
  ELSE UNCHANGED <<observer, onerrorLog>>

\* The client disconnects, the socket fails or a handler destroys it: the socket is
\* no longer writable at once, its 'close' or 'error' is emitted in a later turn of
\* the event loop.
SocketDestroy ==
  /\ phase = "handling"
  /\ ctx.socket = "open"
  /\ ctx' = [ctx EXCEPT !.socket = "destroyed", !.socketWritable = FALSE]
  /\ UNCHANGED <<phase, middleware, ctx0, stack, index, log, pipeline, thenState,
                 catchState, err, observer, respondCalls, onerrorLog>>
  /\ UNCHANGED <<appVars, effects>>

\* node emits 'close', or 'error', on the destroyed socket: the completion observer
\* runs, unless it has run, and a stream still piped to the response is detached.
SocketClose ==
  /\ phase = "handling"
  /\ ctx.socket = "destroyed"
  /\ ctx' = [ctx EXCEPT !.socket = "closed", !.piping = FALSE]
  /\ \E e \in {"null", "socketError"} : Observe(e)
  /\ UNCHANGED <<phase, middleware, ctx0, stack, index, log, pipeline, thenState,
                 catchState, err, respondCalls>>
  /\ UNCHANGED <<appVars, effects>>

\* The ended response has been flushed: 'finish'.
ResponseFinish ==
  /\ phase = "handling"
  /\ ctx.writableEnded
  /\ observer = "armed"
  /\ Observe("null")
  /\ UNCHANGED <<phase, middleware, ctx, ctx0, stack, index, log, pipeline, thenState,
                 catchState, err, respondCalls>>
  /\ UNCHANGED <<appVars, effects>>

\* A response is being served: by the dispatcher, or after the finalizer ran alone.
Serving == phase \in {"handling", "finalized"}

\* The piped stream delivers its first chunk: pipe writes it to the response, which
\* sends the head; the response stays open and piped. The stream stays piped, and
\* delivers, after the socket is destroyed, until 'close' is emitted: an HTTP/1
\* response still marks its headers as sent, an HTTP/2 response sends nothing. A
\* write that throws for the head changes nothing.
StreamChunk ==
  /\ Serving
  /\ ctx.piping
  /\ ~WriteHeadThrows(ctx)
  /\ WriteHead(ctx) # ctx
  /\ ctx' = WriteHead(ctx)
  /\ UNCHANGED <<phase, middleware, ctx0, stack, index, log, pipeline, thenState,
                 catchState, err, observer, respondCalls, onerrorLog>>
  /\ UNCHANGED <<appVars, effects>>

\* The piped stream ends, and pipe calls res.end(), whatever the call does: it ends
\* the response, or throws for the head, or, on a destroyed HTTP/2 stream, closes the
\* response and so runs the completion observer inside the call.
StreamEnd ==
  /\ Serving
  /\ ctx.piping
  /\ ctx' = [End(ctx, Undefined) EXCEPT !.piping = FALSE, !.pipeEnded = TRUE]
  /\ IF EndClosesResponse(ctx) THEN Observe("null") ELSE UNCHANGED <<observer, onerrorLog>>
  /\ UNCHANGED <<phase, middleware, ctx0, stack, index, log, pipeline, thenState,
                 catchState, err, respondCalls>>
  /\ UNCHANGED <<appVars, effects>>

Next ==
  \/ \E fn \in HandlerKinds : Use(fn)
  \/ Callback
  \/ HandleRequest
  \/ HandlerBefore
  \/ HandlerNext
  \/ HandlerThrow
  \/ HandlerAfter
  \/ HandleResponse
  \/ CatchOnerror
  \/ SocketDestroy
  \/ SocketClose
  \/ ResponseFinish
  \/ StreamChunk
  \/ StreamEnd

Spec == Init /\ [][Next]_vars

\* ------------------------------------------------ the finalizer on its own
\* respond is a function of the response state: SpecRespond starts in any of the
\* states below and applies respond once.
Bodies ==
  { Undefined, Null, Str(<<>>), Str(<<"h", "é">>), Buf([i \in 1..BufferLength |-> 0]),
    StreamBody, Obj(<<>>), Obj(<< <<<<"k", "é">>, 10>> >>), Circular }

StatusCodes == {200, 204, 205, 304, 404, 299}

\* The response states node can hand to respond, none of them ended: an HTTP/2
\* response has no status message; a writable socket is open; an open socket is
\* writable, but for the stream of an HTTP/2 HEAD request, which never is.
Realizable(c) ==
  /\ c.httpVersionMajor >= 2 => c.statusMessage = <<>>
  /\ c.socketWritable
       <=> (c.socket = "open" /\ SocketWritableAtStart(c.method, c.httpVersionMajor))

RespondStates ==
  { [MkCtx(m, v, b, s) EXCEPT !.respond = r, !.explicitNullBody = x,
                              !.statusMessage = msg, !.headersSent = hs,
                              !.socketWritable = w, !.socket = sk,
                              !.cl = cl, !.ct = ct, !.te = te] :
      m \in Methods, v \in {1, 2}, b \in Bodies, s \in StatusCodes,
      r \in BOOLEAN, x \in BOOLEAN, msg \in {<<>>, <<"h", "i">>},
      hs \in BOOLEAN, w \in BOOLEAN, sk \in {"open", "destroyed", "closed"},
      cl \in {<<>>, <<7>>},
      ct \in {<<>>, <<"application/json">>}, te \in {<<>>, <<"chunked">>} }

RespondInputs == {c \in RespondStates : Realizable(c)}

InitRespond ==
  /\ phase = "finalizer"
  /\ middleware = <<>>
  /\ ctx \in RespondInputs
  /\ ctx0 = ctx
  /\ stack = <<>>
  /\ index = 0
  /\ log = <<>>
  /\ pipeline = "resolved"
  /\ thenState = "pending"
  /\ catchState = "pending"
  /\ err = "none"
  /\ observer = "armed"
  /\ respondCalls = 0
  /\ onerrorLog = <<>>
  /\ effects = {}
  /\ app = NewApp(FALSE)
  /\ calls = <<>>
  /\ console = <<>>
  /\ heap = Templates
  /\ created = <<>>

ApplyRespond ==
  /\ phase = "finalizer"
  /\ phase' = "finalized"
  /\ LET r == Respond(ctx) IN
       /\ ctx0' = ctx
       /\ ctx' = r.ctx
       /\ respondCalls' = respondCalls + 1
       /\ thenState' = IF r.threw THEN "rejected" ELSE "fulfilled"
       /\ err' = IF r.threw THEN "stringify" ELSE err
  /\ UNCHANGED <<middleware, stack, index, log, pipeline, catchState, observer,
                 onerrorLog>>
  /\ UNCHANGED <<appVars, effects>>

NextRespond == ApplyRespond

SpecRespond == InitRespond /\ [][NextRespond]_vars

\* The dispatcher and the finalizer's input states together.
SpecAll == (Init \/ InitRespond) /\ [][Next \/ NextRespond]_vars

\* ================================================================ claims
CatchCalls == Len(SelectSeq(onerrorLog, LAMBDA o : o.from = "catch"))
ObserverCalls == Len(SelectSeq(onerrorLog, LAMBDA o : o.from = "observer"))
RespondThrew == respondCalls = 1 /\ thenState = "rejected" /\ err = "stringify"

\* C1, as stated: respond and ctx.onerror are each entered at most once and never
\* both for one request, the completion observer's invocations of ctx.onerror included.
C1_Original ==
  /\ respondCalls <= 1
  /\ Len(onerrorLog) <= 1
  /\ ~(respondCalls > 0 /\ onerrorLog # <<>>)

\* C1, amended: respond is entered at most once and only when the pipeline resolved;
\* the chain's catch invokes ctx.onerror at most once; a rejected pipeline never
\* enters respond; after respond the catch invokes ctx.onerror only if respond threw.
\* The completion observer invokes ctx.onerror besides, whatever the outcome.
C1_SuccessFailureExclusive ==
  /\ respondCalls <= 1
  /\ CatchCalls <= 1
  /\ respondCalls = 1 => pipeline = "resolved"
  /\ pipeline = "rejected" => respondCalls = 0
  /\ (respondCalls = 1 /\ CatchCalls = 1) => RespondThrew
  /\ CatchCalls = 1 => (pipeline = "rejected" \/ RespondThrew)
  /\ (pipeline = "rejected" /\ catchState = "fulfilled") => CatchCalls = 1

\* A rejected pipeline went to ctx.onerror alone, and the observer fired too.
C1_Witness ==
  /\ pipeline = "rejected"
  /\ CatchCalls = 1
  /\ ObserverCalls = 1
  /\ respondCalls = 0

Befores == SelectSeq(log, LAMBDA e : e[2] = "before")
Afters == SelectSeq(log, LAMBDA e : e[2] = "after")
Onion(n) == [i \in 1..(2 * n) |-> IF i <= n THEN <<i, "before">> ELSE <<2 * n + 1 - i, "after">>]
AllPass == \A h \in 1..Len(middleware) : middleware[h].kind = "pass"
Settled == pipeline \in {"resolved", "rejected"}

\* C3: handlers run in nested onion order. The code before next() runs in
\* registration order, the code after it in reverse registration order and only once
\* every code before next() has run; a handler that does not call next() keeps every
\* later handler from running; handlers that all call next() once give exactly
\* 1-before, ..., n-before, n-after, ..., 1-after.
C3_OnionOrder ==
  /\ SelectSeq(log, LAMBDA e : e[2] # "multipleNext") = Befores \o Afters
  /\ \A i \in 1..Len(Befores) : Befores[i][1] = i
  /\ \A i \in 1..(Len(Afters) - 1) : Afters[i][1] > Afters[i + 1][1]
  /\ \A h \in 1..Len(middleware) :
       middleware[h].kind \in {"stop", "throws"}
         => \A i \in 1..Len(Befores) : Befores[i][1] <= middleware[h].id
  /\ (AllPass /\ Settled) => (pipeline = "resolved" /\ log = Onion(Len(middleware)))

\* Three handlers A, B, C that each call next() once have run to completion.
C3_Witness ==
  /\ Len(middleware) = 3
  /\ AllPass
  /\ pipeline = "resolved"
  /\ log = << <<1, "before">>, <<2, "before">>, <<3, "before">>,
              <<3, "after">>, <<2, "after">>, <<1, "after">> >>

MultipleNext == \E i \in 1..Len(log) : log[i][2] = "multipleNext"

\* No handler catches the refusal of handler h's second next(): h awaits it outside a
\* try/catch, and no handler upstream of h awaits its own next() inside one.
Uncaught(h) ==
  /\ middleware[h].kind = "twice"
  /\ \A g \in 1..(h - 1) : middleware[g].kind # "guard"

UncaughtRefusal ==
  \E i \in 1..Len(log) : log[i][2] = "multipleNext" /\ Uncaught(log[i][1])

\* C4, as stated: a handler that calls next() twice makes the pipeline fail with the
\* multiple-next error and the request goes to ctx.onerror, not to the finalizer.
C4_Original ==
  (MultipleNext /\ Settled) => (pipeline = "rejected" /\ respondCalls = 0)

\* C4, amended: the second call of next() is refused with the multiple-next error and
\* no handler runs a second time; when no handler catches that error, whatever the
\* other handlers of the pipeline are, the pipeline rejects with it at once and the
\* request goes to ctx.onerror and never to the finalizer.
C4_MultipleNext ==
  /\ \A i, j \in 1..Len(Befores) : Befores[i][1] = Befores[j][1] => i = j
  /\ UncaughtRefusal
       => (pipeline = "rejected" /\ err = "multipleNext" /\ respondCalls = 0)
  /\ (UncaughtRefusal /\ catchState = "fulfilled")
       => onerrorLog # <<>> /\ \E i \in 1..Len(onerrorLog) :
            onerrorLog[i] = [from |-> "catch", err |-> "multipleNext"]

\* A handler called next() twice ahead of a handler that awaits next() in a try/catch:
\* the later handler ran once, the refusal was caught by none and reached ctx.onerror.
C4_Witness ==
  /\ Len(middleware) = 2
  /\ middleware[1].kind = "twice"
  /\ middleware[2].kind = "guard"
  /\ UncaughtRefusal
  /\ Befores = << <<1, "before">>, <<2, "before">> >>
  /\ pipeline = "rejected"
  /\ CatchCalls = 1
  /\ respondCalls = 0

\* C5, as stated: when the pipeline rejects, ctx.onerror is invoked exactly once,
\* the catch's and the observer's invocations counted together.
C5_Original ==
  (pipeline = "rejected" /\ catchState = "fulfilled") => Len(onerrorLog) = 1

\* C5, amended: the pipeline's catch invokes ctx.onerror exactly once when the
\* pipeline rejects, and the completion observer invokes it at most once, when the
\* response finishes or the connection closes, whatever the pipeline's outcome: at
\* most twice for one request.
C5_OnerrorInvocations ==
  /\ CatchCalls <= 1
  /\ ObserverCalls <= 1
  /\ (pipeline = "rejected" /\ catchState = "fulfilled") => CatchCalls = 1
  /\ ObserverCalls = 1 <=> observer = "fired"
  /\ (phase = "handling" /\ ctx.socket = "closed") => ObserverCalls = 1

\* The connection closed while the pipeline ran, the pipeline then rejected: the
\* observer and the catch each invoked ctx.onerror.
C5_Witness ==
  /\ pipeline = "rejected"
  /\ catchState = "fulfilled"
  /\ onerrorLog = << [from |-> "observer", err |-> "null"],
                     [from |-> "catch", err |-> "boom"] >>

\* What has gone to the connection: the calls of res.end and body.pipe(res), what was
\* given to write, and whether the head was sent and the response ended.
WritesOf(c) == <<c.endCalls, c.pipeCalls, c.payload, c.headersSent, c.writableEnded>>

\* C6: once the connection has terminated (destroyed or closed, so that ctx.writable
\* is false) with no stream piped to it, nothing is written to it: when respond runs
\* it leaves the whole response state as it was, body and headers included, and no
\* step of the request calls res.end or body.pipe(res), sends the head or ends the
\* response; this for every interleaving of the termination with the handlers.
C6_NoWriteAfterTermination ==
  [][ (phase = "handling" /\ ctx.socket # "open" /\ ~ctx.piping)
        => /\ ~Writable(ctx)
           /\ WritesOf(ctx') = WritesOf(ctx)
           /\ respondCalls' # respondCalls => ctx' = ctx ]_vars

\* The connection of a GET request terminated before the pipeline resolved, a
\* handler had set a body, and respond then ran and wrote nothing.
C6_Witness ==
  /\ respondCalls = 1
  /\ Len(log) >= 2
  /\ ctx0.method = "GET"
  /\ ctx0.socket # "open"
  /\ ~Writable(ctx0)
  /\ ctx0.respond
  /\ ctx0.body = Str(<<"h", "i">>)
  /\ ctx = ctx0
  /\ ctx.endCalls = 0 /\ ctx.pipeCalls = 0 /\ ~ctx.headersSent

BodyEffects == {"bodyString", "bodyStream", "bodyCircular"}
NoStatusSet == "status200" \notin effects
NoBodySet == effects \cap BodyEffects = {}

Finalized == phase = "finalized"
NotFoundText == <<"N", "o", "t", " ", "F", "o", "u", "n", "d">>

\* The finalizer's status-body case: writable, no bypass, a status that carries a
\* body, not HEAD, a null or undefined body, no explicit-null-body flag.
StatusBodyCase(c) ==
  /\ c.respond /\ Writable(c) /\ ~StatusesEmpty(c.statusCode)
  /\ c.method # "HEAD" /\ IsNullish(c.body) /\ ~c.explicitNullBody

SynthesizedBody(c) ==
  IF c.httpVersionMajor >= 2 THEN String(c.statusCode)
  ELSE IF c.statusMessage # <<>> THEN c.statusMessage
  ELSE IF Statuses(c.statusCode) # <<>> THEN Statuses(c.statusCode)
  ELSE String(c.statusCode)

\* res.end was called once and wrote: respond returned, the head is sent and the
\* response is ended.
WrittenOnce(after) ==
  /\ after.endCalls = 1 /\ after.pipeCalls = 0
  /\ thenState = "fulfilled"
  /\ after.writableEnded /\ after.headersSent

\* res.end was called once, with its payload, and wrote, unless node's HTTP/2
\* response refused the head for its Transfer-Encoding header: then, and only then,
\* respond threw what res.end threw, nothing is sent and the response is still open.
EndedOnce(before, after) ==
  /\ after.endCalls = 1 /\ after.pipeCalls = 0
  /\ thenState = (IF WriteHeadThrows(before) THEN "rejected" ELSE "fulfilled")
  /\ after.writableEnded = ~WriteHeadThrows(before)
  /\ after.headersSent = ~WriteHeadThrows(before)

\* The payload handed to res.end and the headers of the status-body case.
StatusBodyGiven ==
  /\ ctx.payload = Str(SynthesizedBody(ctx0))
  /\ IF ~ctx0.headersSent
     THEN ctx.ct = <<TextPlain>> /\ ctx.cl = <<ByteLength(SynthesizedBody(ctx0))>>
     ELSE ctx.ct = ctx0.ct /\ ctx.cl = ctx0.cl
  /\ (ctx0.statusCode = 404 /\ ctx0.httpVersionMajor = 2)
       => ctx.payload.text = <<"4", "0", "4">> /\ (~ctx0.headersSent => ctx.cl = <<3>>)
  /\ (ctx0.statusCode = 404 /\ ctx0.httpVersionMajor = 1 /\ ctx0.statusMessage = <<>>)
       => ctx.payload.text = NotFoundText /\ (~ctx0.headersSent => ctx.cl = <<9>>)
  /\ (ctx0.statusCode = 299 /\ ctx0.statusMessage = <<>>)
       => ctx.payload.text = <<"2", "9", "9">>

\* C8, as stated: in the status-body case the payload written is the status as digits
\* under HTTP/2 and above, else the status message, else the digits, and with headers
\* unsent the content type is plain text and the content length the payload's byte
\* length.
C8_Original ==
  (Finalized /\ StatusBodyCase(ctx0)) => (WrittenOnce(ctx) /\ StatusBodyGiven)

\* C8, amended: in the status-body case res.end is given the status as digits under
\* HTTP/2 and above, else the status message, else the digits; with headers unsent the
\* content type becomes plain text and the content length the payload's byte length
\* (404: "Not Found" and 9 under HTTP/1, "404" and 3 under HTTP/2). The payload is
\* written, except on an HTTP/2 response with a Transfer-Encoding header and headers
\* unsent, where res.end throws, respond throws with it and nothing is written.
C8_StatusBody ==
  (Finalized /\ StatusBodyCase(ctx0)) => (EndedOnce(ctx0, ctx) /\ StatusBodyGiven)

\* The default response: status 404, no body, HTTP/1, headers unsent.
C8_Witness ==
  /\ Finalized
  /\ StatusBodyCase(ctx0)
  /\ ctx0.statusCode = 404 /\ ctx0.httpVersionMajor = 1 /\ ~ctx0.headersSent
  /\ ctx.payload = Str(NotFoundText)
  /\ ctx.cl = <<9>>
  /\ ctx.ct = <<TextPlain>>

NoBodyCase(c) == c.respond /\ Writable(c) /\ StatusesEmpty(c.statusCode)

\* C9: with a no-body status (204, 205, 304) the body is cleared to null and the
\* response is ended with no payload, whatever the body and the method; nothing is
\* piped and no content length is computed from the body.
C9_NoBodyStatus ==
  (Finalized /\ NoBodyCase(ctx0)) =>
    /\ thenState = "fulfilled"
    /\ ctx.body = Null
    /\ ctx.endCalls = 1 /\ ctx.pipeCalls = 0
    /\ ctx.payload = Undefined
    /\ ctx.cl = (IF ctx0.headersSent THEN ctx0.cl ELSE <<>>)

\* A HEAD request with status 204 and a stream body.
C9_Witness ==
  /\ Finalized
  /\ NoBodyCase(ctx0)
  /\ ctx0.method = "HEAD" /\ ctx0.statusCode = 204 /\ ctx0.body = StreamBody
  /\ ctx.body = Null
  /\ ctx.endCalls = 1

HeadCase(c) ==
  c.respond /\ Writable(c) /\ ~StatusesEmpty(c.statusCode) /\ c.method = "HEAD"

\* C10, as stated: a HEAD response is ended with no payload for every body, and with
\* headers unsent and no Content-Length header the content length is set.
C10_Original ==
  (Finalized /\ HeadCase(ctx0)) =>
    /\ ctx.endCalls = 1
    /\ ctx.payload = Undefined
    /\ IF ~ctx0.headersSent /\ ~Has(ctx0, "cl") THEN ctx.cl # <<>> ELSE ctx.cl = ctx0.cl

\* The length the HEAD rule sets for a body: the byte length of a non-empty string,
\* of a byte sequence, of a structured value's serialization; none for an absent
\* body, an empty string or a stream.
HeadLength(b) ==
  CASE b.kind = "string" /\ b.text # <<>> -> <<ByteLength(b.text)>>
    [] b.kind = "buffer" -> <<Len(b.bytes)>>
    [] b.kind = "object" -> <<ByteLength(JSONStringify(b))>>
    [] OTHER -> <<>>

\* C10, amended: a HEAD response is ended with no payload; with headers unsent and no
\* Content-Length header the content length is set to the body's byte length when
\* the body has one (a non-empty string, a byte sequence, a serializable structured
\* value) and is left unset for an absent body, an empty string or a stream, while a
\* structured value that cannot be serialized makes the finalizer throw before it
\* ends the response; with headers sent or a Content-Length header the header stays.
C10_HeadContentLength ==
  (Finalized /\ HeadCase(ctx0)) =>
    IF ~ctx0.headersSent /\ ~Has(ctx0, "cl")
    THEN IF ctx0.body.kind = "circular"
         THEN thenState = "rejected" /\ ctx = ctx0
         ELSE /\ thenState = "fulfilled"
              /\ ctx.endCalls = 1 /\ ctx.pipeCalls = 0 /\ ctx.payload = Undefined
              /\ ctx.cl = HeadLength(ctx0.body)
              /\ ctx0.body.kind = "buffer" => ctx.cl = <<BufferLength>>
    ELSE /\ thenState = "fulfilled"
         /\ ctx.endCalls = 1 /\ ctx.pipeCalls = 0 /\ ctx.payload = Undefined
         /\ ctx.cl = ctx0.cl

\* A HEAD request with status 200 and a byte body, no header sent or set.
C10_Witness ==
  /\ Finalized
  /\ HeadCase(ctx0)
  /\ ctx0.statusCode = 200 /\ ctx0.body.kind = "buffer"
  /\ ~ctx0.headersSent /\ ~Has(ctx0, "cl")
  /\ ctx.cl = <<Len(ctx0.body.bytes)>>
  /\ ctx.endCalls = 1 /\ ctx.payload = Undefined

\* The finalizer's explicit-null-body case.
ExplicitNullCase(c) ==
  /\ c.respond /\ Writable(c) /\ ~StatusesEmpty(c.statusCode)
  /\ c.method # "HEAD" /\ IsNullish(c.body) /\ c.explicitNullBody

\* C11, as stated: in the explicit-null-body case the Content-Type and
\* Transfer-Encoding headers are removed and the response is ended with no payload.
C11_Original ==
  (Finalized /\ ExplicitNullCase(ctx0)) =>
    /\ ctx.ct = <<>> /\ ctx.te = <<>>
    /\ ctx.endCalls = 1 /\ ctx.payload = Undefined

\* C11, amended: in the explicit-null-body case the response is ended with no
\* payload, no status text is synthesized and no content type or content length is
\* set; the Content-Type and Transfer-Encoding headers are removed when the headers
\* are unsent, and stay as they are once the headers have been sent.
C11_ExplicitNullBody ==
  (Finalized /\ ExplicitNullCase(ctx0)) =>
    /\ thenState = "fulfilled"
    /\ ctx.endCalls = 1 /\ ctx.pipeCalls = 0
    /\ ctx.payload = Undefined
    /\ ctx.cl = ctx0.cl
    /\ IF ctx0.headersSent THEN ctx.ct = ctx0.ct /\ ctx.te = ctx0.te
       ELSE ctx.ct = <<>> /\ ctx.te = <<>>

\* Status 200, body null with the flag, both headers set and unsent: both removed.
C11_Witness ==
  /\ Finalized
  /\ ExplicitNullCase(ctx0)
  /\ ctx0.statusCode = 200 /\ ctx0.body = Null /\ ~ctx0.headersSent
  /\ ctx0.ct # <<>> /\ ctx0.te # <<>>
  /\ ctx.ct = <<>> /\ ctx.te = <<>>
  /\ ctx.endCalls = 1 /\ ctx.payload = Undefined

\* The finalizer's body rules are reached: writable, no bypass, a status that
\* carries a body, not HEAD, a body that is present.
BodyCase(c) ==
  /\ c.respond /\ Writable(c) /\ ~StatusesEmpty(c.statusCode)
  /\ c.method # "HEAD" /\ ~IsNullish(c.body)

\* The body rules reach line 308 with a structured value.
StructuredCase(c) == BodyCase(c) /\ c.body.kind \in {"object", "circular"}

\* The payload handed to res.end and the content length of the structured rule.
StructuredGiven ==
  /\ ctx.payload = Str(JSONStringify(ctx0.body))
  /\ ctx.cl = (IF ctx0.headersSent THEN ctx0.cl
               ELSE <<ByteLength(JSONStringify(ctx0.body))>>)

\* C12, as stated: a body that is neither absent, a byte sequence, a string nor a
\* stream is written as its JSON text, and the content length is set to the byte
\* length of that text exactly when the headers are unsent.
C12_Original ==
  (Finalized /\ StructuredCase(ctx0)) => (WrittenOnce(ctx) /\ StructuredGiven)

\* C12, amended: a structured body that JSON.stringify accepts is handed to res.end as
\* its JSON text, and the content length is set to the byte length of that text
\* exactly when the headers are unsent (the map with key "ké" and value 10: 9
\* characters, 10 bytes); it is written, except on an HTTP/2 response with a
\* Transfer-Encoding header and headers unsent, where res.end throws. A value that
\* JSON.stringify rejects makes respond throw before it sets a header or calls res.end.
C12_StructuredBody ==
  (Finalized /\ StructuredCase(ctx0)) =>
    IF ctx0.body.kind = "circular"
    THEN thenState = "rejected" /\ ctx = ctx0
    ELSE /\ EndedOnce(ctx0, ctx)
         /\ StructuredGiven
         /\ ctx0.body.obj = <<>> => ctx.payload.text = <<"{", "}">>
         /\ ctx0.body.obj # <<>> =>
              /\ ctx.payload.text = <<"{", "\"", "k", "é", "\"", ":", "1", "0", "}">>
              /\ ~ctx0.headersSent => ctx.cl = <<10>>

\* The map {"ké": 10} with headers unsent and another Content-Length set before.
C12_Witness ==
  /\ Finalized
  /\ BodyCase(ctx0)
  /\ ctx0.body = Obj(<< <<<<"k", "é">>, 10>> >>)
  /\ ~ctx0.headersSent /\ ctx0.cl = <<7>>
  /\ ctx.cl = <<10>>
  /\ ctx.endCalls = 1

\* What the stream rule does: one body.pipe(res), no res.end, nothing else touched.
StreamPiped ==
  /\ thenState = "fulfilled"
  /\ ctx.pipeCalls = 1 /\ ctx.endCalls = 0 /\ ctx.piping
  /\ ctx.payload = ctx0.payload
  /\ <<ctx.cl, ctx.ct, ctx.te>> = <<ctx0.cl, ctx0.ct, ctx0.te>>
  /\ ctx.headersSent = ctx0.headersSent

\* What res.end is given for a byte sequence or a string: the body itself, with no
\* header changed.
VerbatimGiven ==
  /\ ctx.payload = ctx0.body
  /\ <<ctx.cl, ctx.ct, ctx.te>> = <<ctx0.cl, ctx0.ct, ctx0.te>>

\* C13, as stated: a byte sequence or a string is written verbatim with res.end and
\* no header is changed; a stream is piped with no res.end by the finalizer and no
\* content length computed.
C13_Original ==
  (Finalized /\ BodyCase(ctx0)) =>
    /\ ctx0.body.kind \in {"buffer", "string"} => (WrittenOnce(ctx) /\ VerbatimGiven)
    /\ ctx0.body.kind = "stream" => StreamPiped

\* C13, amended: a byte sequence or a string is handed verbatim to res.end with no
\* header changed, and is written, except on an HTTP/2 response with a
\* Transfer-Encoding header and headers unsent, where res.end throws; a stream is
\* piped, with no res.end by the finalizer and no content length computed. Neither is
\* serialized as a structured value, which is what the later rule would do with them:
\* the earlier test wins.
C13_VerbatimAndStream ==
  (Finalized /\ BodyCase(ctx0)) =>
    /\ ctx0.body.kind \in {"buffer", "string"} => (EndedOnce(ctx0, ctx) /\ VerbatimGiven)
    /\ ctx0.body.kind = "stream" => StreamPiped

\* A string body with no header set or sent: written as it is, no header added.
C13_Witness ==
  /\ Finalized
  /\ BodyCase(ctx0)
  /\ ctx0.body = Str(<<"h", "é">>)
  /\ ~ctx0.headersSent /\ ctx0.cl = <<>>
  /\ ctx.payload = ctx0.body
  /\ ctx.endCalls = 1
  /\ ctx.cl = <<>>

\* C14: with the bypass flag set (ctx.respond false) the finalizer does nothing,
\* whatever the status, method, body and writability: nothing ended, nothing piped,
\* body and headers as they were.
C14_Bypass ==
  (Finalized /\ ~ctx0.respond) => (ctx = ctx0 /\ thenState = "fulfilled")

\* Bypass with a writable connection, a string body and status 200.
C14_Witness ==
  /\ Finalized
  /\ ~ctx0.respond /\ Writable(ctx0)
  /\ ctx0.body.kind = "string" /\ ctx0.statusCode = 200
  /\ ctx.endCalls = 0 /\ ctx.pipeCalls = 0

\* C15, as stated: respond modifies nothing and writes nothing after headers have
\* been sent or while the connection is not writable.
C15_Original ==
  (Finalized /\ (ctx0.headersSent \/ ~Writable(ctx0))) => ctx = ctx0

\* C15, amended: while the connection is not writable respond changes nothing and
\* writes nothing; once the headers have been sent it changes no response header
\* (content type, content length, transfer encoding) and not the status, but it
\* still ends the response with its payload or pipes the stream, and still clears
\* the body for a no-body status.
C15_GuardedWrites ==
  /\ (Finalized /\ ~Writable(ctx0)) => ctx = ctx0
  /\ (Finalized /\ ctx0.headersSent) =>
       /\ <<ctx.cl, ctx.ct, ctx.te, ctx.statusCode>>
            = <<ctx0.cl, ctx0.ct, ctx0.te, ctx0.statusCode>>
       /\ ctx.endCalls + ctx.pipeCalls <= 1

\* Respond ran on a closed connection with a no-body status and a string body,
\* and left the body and everything else as it was.
C15_Witness ==
  /\ Finalized
  /\ ~Writable(ctx0) /\ ctx0.respond
  /\ ctx0.statusCode = 204 /\ ctx0.body.kind = "string"
  /\ ctx = ctx0

\* ------------------------------------------------ the default error handler
\* A value handed to app.onerror:
\*   tag      Object.prototype.toString.call(err): "[object Error]" or another tag
\*   inst     err instanceof Error
\*   status   err.status (0: undefined)
\*   expose   err.expose: "undefined", "false", "true"
\*   stack    err.stack, as lines (<<>>: no stack)
\*   text     err.toString(), as lines
ErrValues ==
  [ tag : {"[object Error]", "[object Object]"}, inst : BOOLEAN, status : {0, 404, 500},
    expose : {"undefined", "false", "true"},
    stack : {<<>>, << <<"E", ":", "m">>, <<" ", "a", "t", " ", "f">> >>},
    text : {<< <<"E", ":", "m">> >>} ]

\* An error handler that recognizes an error by instanceof alone.
IsNativeErrorSameRealm(e) == e.inst

\* Lines 239-241.
IsNativeError(e) == e.tag = "[object Error]" \/ e.inst

\* msg.replace(/^/gm, '  '): two spaces in front of every line.
Indent(lines) == [i \in 1..Len(lines) |-> <<" ", " ">> \o lines[i]]

\* The text of console.error(`\n${...}\n`), as lines: an empty line, the indented
\* message, an empty line.
ErrorOutput(e) ==
  <<<<>>>> \o Indent(IF e.stack # <<>> THEN e.stack ELSE e.text) \o <<<<>>>>

\* An error handler that suppresses only an error that has both status 404 and expose.
OnerrorBoth(a, e) ==
  IF ~IsNativeError(e) THEN [threw |-> "TypeError", written |-> <<>>]
  ELSE IF e.status = 404 /\ e.expose = "true" THEN [threw |-> "none", written |-> <<>>]
  ELSE IF a.silent THEN [threw |-> "none", written |-> <<>>]
  ELSE [threw |-> "none", written |-> <<ErrorOutput(e)>>]

\* onerror(err), lines 235-249: what it throws and what it writes to console.error.
Onerror(a, e) ==
  IF ~IsNativeError(e) THEN [threw |-> "TypeError", written |-> <<>>]
  ELSE IF e.status = 404 \/ e.expose = "true" THEN [threw |-> "none", written |-> <<>>]
  ELSE IF a.silent THEN [threw |-> "none", written |-> <<>>]
  ELSE [threw |-> "none", written |-> <<ErrorOutput(e)>>]

\* SpecOnerror: an application, silent or not, whose onerror is called with any value.
InitOnerror ==
  /\ phase = "onerror"
  /\ middleware = <<>>
  /\ ctx = FreshCtx("GET", 1)
  /\ ctx0 = FreshCtx("GET", 1)
  /\ stack = <<>>
  /\ index = 0
  /\ log = <<>>
  /\ pipeline = "idle"
  /\ thenState = "pending"
  /\ catchState = "pending"
  /\ err = "none"
  /\ observer = "none"
  /\ respondCalls = 0
  /\ onerrorLog = <<>>
  /\ effects = {}
  /\ \E silent \in BOOLEAN : app = NewApp(silent)
  /\ calls = <<>>
  /\ console = <<>>
  /\ heap = Templates
  /\ created = <<>>

CallOnerror(e) ==
  /\ phase = "onerror"
  /\ Len(calls) < MaxOnerrorCalls
  /\ LET r == Onerror(app, e) IN
       /\ calls' = Append(calls, [op |-> "onerror", arg |-> e, threw |-> r.threw,
                                  wrote |-> r.written # <<>>])
       /\ console' = console \o r.written
  /\ UNCHANGED <<phase, middleware, reqVars, app, heap, created>>

NextOnerror == \E e \in ErrValues : CallOnerror(e)

SpecOnerror == InitOnerror /\ [][NextOnerror]_vars

Wrote == {i \in 1..Len(calls) : calls[i].wrote}

\* C16: the default error handler writes a recognized error to the error stream if
\* and only if its status is not 404, its expose flag is not truthy and the
\* application is not silent; a value with status 404 or expose = true is never
\* written, silent or not; what is written is the stack (else toString()), every
\* line indented.
C16_ErrorLogging ==
  /\ \A i \in 1..Len(calls) :
       LET e == calls[i].arg IN
       /\ (e.tag = "[object Error]" \/ e.inst)
            => (calls[i].wrote <=> (e.status # 404 /\ e.expose # "true" /\ ~app.silent))
       /\ (e.status = 404 \/ e.expose = "true") => ~calls[i].wrote
       /\ app.silent => ~calls[i].wrote
  /\ Len(console) = Cardinality(Wrote)
  /\ \A i \in 1..Len(calls) :
       (Wrote = {i} /\ calls[i].arg.stack # <<>>)
         => console = << << <<>>, <<" ", " ", "E", ":", "m">>,
                            <<" ", " ", " ", "a", "t", " ", "f">>, <<>> >> >>

\* An error with status 500 and expose false was written, and one with status 404
\* was not, by an application that is not silent.
C16_Witness ==
  /\ phase = "onerror"
  /\ ~app.silent
  /\ Len(calls) = 2
  /\ calls[1].arg.status = 500 /\ calls[1].arg.expose = "false" /\ calls[1].arg.inst
  /\ calls[1].wrote
  /\ calls[2].arg.status = 404 /\ calls[2].arg.inst
  /\ ~calls[2].wrote
  /\ Len(console) = 1

\* C17, as stated: the default error handler never throws, whatever it is given.
C17_Original == \A i \in 1..Len(calls) : calls[i].op = "onerror" => calls[i].threw = "none"

\* C17, amended: the default error handler returns normally for every recognized
\* error object (its tag is [object Error], or it is an instance of Error); for any
\* other value it throws the non-error TypeError and writes nothing.
C17_ThrowsOnlyForNonErrors ==
  \A i \in 1..Len(calls) :
    calls[i].op = "onerror" =>
      LET e == calls[i].arg IN
      /\ (e.tag = "[object Error]" \/ e.inst) <=> calls[i].threw = "none"
      /\ (e.tag # "[object Error]" /\ ~e.inst) <=> calls[i].threw = "TypeError"
      /\ calls[i].threw = "TypeError" => ~calls[i].wrote

\* An error of another realm (not an instance of Error here) was accepted, and a
\* value that is no error was refused.
C17_Witness ==
  /\ phase = "onerror"
  /\ Len(calls) = 2
  /\ calls[1].arg.tag = "[object Error]" /\ ~calls[1].arg.inst /\ calls[1].threw = "none"
  /\ calls[2].arg.tag = "[object Object]" /\ ~calls[2].arg.inst
  /\ calls[2].threw = "TypeError"

\* ------------------------------------------------------------ registration
\* The values handed to use in SpecUse.
UseArgs ==
  {Fn(k, g) : k \in HandlerKinds, g \in BOOLEAN} \cup {NotFn(t) : t \in {"object", "undefined"}}

InitUse ==
  /\ phase = "use"
  /\ middleware = <<>>
  /\ ctx = FreshCtx("GET", 1)
  /\ ctx0 = FreshCtx("GET", 1)
  /\ stack = <<>>
  /\ index = 0
  /\ log = <<>>
  /\ pipeline = "idle"
  /\ thenState = "pending"
  /\ catchState = "pending"
  /\ err = "none"
  /\ observer = "none"
  /\ respondCalls = 0
  /\ onerrorLog = <<>>
  /\ effects = {}
  /\ app = NewApp(FALSE)
  /\ calls = <<>>
  /\ console = <<>>
  /\ heap = Templates
  /\ created = <<>>

\* app.use(fn) with any value.
UseCall(fn) ==
  /\ phase = "use"
  /\ Len(calls) < MaxUseCalls
  /\ LET r == UseResult(middleware, fn) IN
       /\ middleware' = r.middleware
       /\ calls' = Append(calls, [op |-> "use", arg |-> fn, threw |-> r.threw,
                                  ret |-> r.ret])
  /\ UNCHANGED <<phase, reqVars, app, console, heap, created>>

NextUse == \E fn \in UseArgs : UseCall(fn)

SpecUse == InitUse /\ [][NextUse]_vars

IsCallable(c) == c.op = "use" /\ c.arg.type = "function"

\* The calls of use whose argument was callable, in call order.
CallableCalls == SelectSeq(calls, IsCallable)

\* The last call of use, after a step.
LastCall == calls'[Len(calls')]

\* C18, as stated: after any sequence of use calls the middleware sequence is the
\* sequence of the callable arguments themselves, in call order.
C18_Original ==
  phase = "use" =>
    /\ Len(middleware) = Len(CallableCalls)
    /\ \A i \in 1..Len(middleware) :
         /\ middleware[i].kind = CallableCalls[i].arg.kind
         /\ middleware[i].converted = CallableCalls[i].arg.converted

\* C18, amended: use with a callable argument appends exactly one handler at the end,
\* keeps the earlier handlers and their order and returns the application; with a
\* non-callable argument it throws a TypeError and leaves the sequence unchanged; the
\* sequence is the callable arguments in call order, a generator function being
\* registered as its converted wrapper, not as itself.
C18_UseAppends ==
  /\ [](phase = "use" =>
         /\ Len(middleware) = Len(CallableCalls)
         /\ \A i \in 1..Len(middleware) :
              /\ middleware[i].kind = CallableCalls[i].arg.kind
              /\ middleware[i].converted = CallableCalls[i].arg.generator)
  /\ [][phase = "use" =>
         /\ LastCall.arg.type = "function" =>
              /\ LastCall.threw = "none"
              /\ LastCall.ret = "app"
              /\ Len(middleware') = Len(middleware) + 1
              /\ SubSeq(middleware', 1, Len(middleware)) = middleware
         /\ LastCall.arg.type # "function" =>
              /\ LastCall.threw = "TypeError"
              /\ middleware' = middleware]_vars

\* Three calls: a function, a non-function (refused, nothing registered), a generator
\* function (registered converted).
C18_Witness ==
  /\ phase = "use"
  /\ Len(calls) = 3
  /\ calls[1].arg = Fn("pass", FALSE) /\ calls[1].threw = "none"
  /\ calls[2].arg.type = "object" /\ calls[2].threw = "TypeError"
  /\ calls[3].arg = Fn("stop", TRUE) /\ calls[3].threw = "none"
  /\ Len(middleware) = 2
  /\ middleware[1].kind = "pass" /\ ~middleware[1].converted
  /\ middleware[2].kind = "stop" /\ middleware[2].converted

\* ------------------------------------------- createContext for several requests
InitContext ==
  /\ phase = "context"
  /\ middleware = <<>>
  /\ ctx = FreshCtx("GET", 1)
  /\ ctx0 = FreshCtx("GET", 1)
  /\ stack = <<>>
  /\ index = 0
  /\ log = <<>>
  /\ pipeline = "idle"
  /\ thenState = "pending"
  /\ catchState = "pending"
  /\ err = "none"
  /\ observer = "none"
  /\ respondCalls = 0
  /\ onerrorLog = <<>>
  /\ effects = {}
  /\ app = NewApp(FALSE)
  /\ calls = <<>>
  /\ console = <<>>
  /\ heap = Templates
  /\ created = <<>>

\* app.createContext(req, res), called for a new request.
CreateContext ==
  /\ phase = "context"
  /\ Len(created) < MaxRequests
  /\ LET r == CreateContextResult(heap, Len(created) + 1) IN
       /\ heap' = r.heap
       /\ created' = Append(created, r.context)
  /\ UNCHANGED <<phase, middleware, reqVars, app, calls, console>>

\* The objects a request's handlers reach from its context: the context, its two
\* facades and its state map.
Request(h, c) == Lookup(h, c, "request").v
Response(h, c) == Lookup(h, c, "response").v
State(h, c) == Lookup(h, c, "state").v
Objects(h, c) == {c, Request(h, c), Response(h, c), State(h, c)}

\* A handler of request r sets a property through its context or facades:
\* ctx.x = v, ctx.request.x = v, ctx.response.x = v or ctx.state.x = v.
RequestWrite(r, o) ==
  /\ phase = "context"
  /\ r \in 1..Len(created)
  /\ o \in Objects(heap, created[r])
  /\ heap' = [heap EXCEPT ![o].props = Merge(@, [k \in {"x"} |-> Val("val", r)])]
  /\ UNCHANGED <<phase, middleware, reqVars, app, calls, console, created>>

\* The application's owner extends a template: app.context.x = v, app.request.x = v
\* or app.response.x = v.
TemplateWrite(t) ==
  /\ phase = "context"
  /\ heap' = [heap EXCEPT ![t].props = Merge(@, [k \in {"x"} |-> Val("val", 0)])]
  /\ UNCHANGED <<phase, middleware, reqVars, app, calls, console, created>>

NextContext ==
  \/ CreateContext
  \/ \E r \in 1..MaxRequests, o \in DOMAIN heap : RequestWrite(r, o)
  \/ \E t \in DOMAIN Templates : TemplateWrite(t)

SpecContext == InitContext /\ [][NextContext]_vars

\* The context createContext has just returned, after a step that created one.
NewContext == created'[Len(created')]

\* C19: two requests never share a context, a facade or a state map, and none of
\* these is a template; the state map starts empty; a value written through one
\* request's context, facades or state map is never read through another request's
\* objects nor through a template; createContext changes neither the application's
\* configuration, nor its templates, nor the objects of earlier requests.
C19_ContextIsolation ==
  /\ [](phase = "context" =>
         /\ \A r \in 1..Len(created) :
              /\ Cardinality(Objects(heap, created[r])) = 4
              /\ Objects(heap, created[r]) \cap DOMAIN Templates = {}
              /\ \A r2 \in 1..Len(created) :
                   r2 # r => Objects(heap, created[r]) \cap Objects(heap, created[r2]) = {}
              /\ \A o \in Objects(heap, created[r]) :
                   Lookup(heap, o, "x").t = "val" => Lookup(heap, o, "x").v \in {0, r}
         /\ \A t \in DOMAIN Templates :
              Lookup(heap, t, "x").t = "val" => Lookup(heap, t, "x").v = 0)
  /\ [][(phase = "context" /\ created' # created) =>
         /\ heap'[State(heap', NewContext)] = NewObject(0)
         /\ \A o \in DOMAIN heap : heap'[o] = heap[o]
         /\ app' = app
         /\ middleware' = middleware]_vars

\* Two requests exist; the first wrote x on its context and in its state map while
\* the template context carries the owner's x: the second request reads the
\* owner's value through its context and nothing in its state map.
C19_Witness ==
  /\ phase = "context"
  /\ Len(created) = 2
  /\ Lookup(heap, created[1], "x") = Val("val", 1)
  /\ Lookup(heap, State(heap, created[1]), "x") = Val("val", 1)
  /\ Lookup(heap, ContextTemplate, "x") = Val("val", 0)
  /\ Lookup(heap, created[2], "x") = Val("val", 0)
  /\ Lookup(heap, State(heap, created[2]), "x") = Val("undefined", 0)
  /\ Lookup(heap, Request(heap, created[2]), "ctx") = Val("ref", created[2])

\* ------------------------------------------------------------ callback
\* The middleware sequences of SpecCallback's applications.
CallbackMiddleware ==
  { <<>>,
    <<[id |-> 1, kind |-> "pass", converted |-> FALSE],
      [id |-> 2, kind |-> "stop", converted |-> FALSE]>>,
    <<[id |-> 1, kind |-> "throws", converted |-> FALSE]>> }

InitCallback ==
  /\ phase = "setup"
  /\ middleware \in CallbackMiddleware
  /\ ctx = FreshCtx("GET", 1)
  /\ ctx0 = FreshCtx("GET", 1)
  /\ stack = <<>>
  /\ index = 0
  /\ log = <<>>
  /\ pipeline = "idle"
  /\ thenState = "pending"
  /\ catchState = "pending"
  /\ err = "none"
  /\ observer = "none"
  /\ respondCalls = 0
  /\ onerrorLog = <<>>
  /\ effects = {}
  /\ app = NewApp(FALSE)
  /\ calls = <<>>
  /\ console = <<>>
  /\ heap = Templates
  /\ created = <<>>

\* callback() called again on the same application.
CallbackAgain ==
  /\ phase = "listening"
  /\ app.composeCalls < MaxCallbacks
  /\ app' = DoCallback(app)
  /\ calls' = Append(calls, [op |-> "callback", listeners |-> app.listeners])
  /\ UNCHANGED <<phase, middleware, reqVars, console, heap, created>>

\* The owner's app.on('error', listener).
AddListener ==
  /\ phase \in {"setup", "listening"}
  /\ Len(app.listeners) < MaxListeners
  /\ app' = [app EXCEPT !.listeners = Append(@, "user")]
  /\ UNCHANGED <<phase, middleware, reqVars, calls, console, heap, created>>

\* The owner's app.removeAllListeners('error').
RemoveListeners ==
  /\ phase \in {"setup", "listening"}
  /\ app.listeners # <<>>
  /\ app' = [app EXCEPT !.listeners = <<>>]
  /\ UNCHANGED <<phase, middleware, reqVars, calls, console, heap, created>>

NextCallback ==
  \/ Callback
  \/ CallbackAgain
  \/ AddListener
  \/ RemoveListeners
  \/ HandleRequest
  \/ HandlerBefore
  \/ HandlerNext
  \/ HandlerThrow
  \/ HandlerAfter
  \/ HandleResponse
  \/ CatchOnerror
  \/ SocketDestroy
  \/ SocketClose
  \/ ResponseFinish
  \/ StreamChunk
  \/ StreamEnd

SpecCallback == InitCallback /\ [][NextCallback]_vars

IsOnerror(l) == l = "onerror"
IsCallbackCall(c) == c.op = "callback"

\* C20: the default error handler is among the 'error' listeners at most once; a
\* callback() call that finds an 'error' listener registers nothing, one that finds
\* none registers the default error handler; every callback() call composes the
\* middleware exactly once, and no step of handling a request composes it.
C20_CallbackRegistration ==
  /\ [](/\ Len(SelectSeq(app.listeners, IsOnerror)) <= 1
        /\ app.composeCalls = Len(SelectSeq(calls, IsCallbackCall)))
  /\ [][/\ calls' # calls =>
             /\ app.listeners # <<>> => app'.listeners = app.listeners
             /\ app.listeners = <<>> => app'.listeners = <<"onerror">>
             /\ app'.composeCalls = app.composeCalls + 1
        /\ phase' = "handling" => app' = app]_vars

\* callback() was called twice, the second call found the default error handler
\* registered by the first and added nothing, and a request has been answered.
C20_Witness ==
  /\ phase = "handling"
  /\ Len(calls) = 2
  /\ calls[1].op = "callback" /\ calls[1].listeners = <<>>
  /\ calls[2].op = "callback" /\ calls[2].listeners = <<"onerror">>
  /\ app.composeCalls = 2
  /\ app.listeners = <<"onerror">>
  /\ respondCalls = 1

====
